---- MODULE Spec2Model ----
(***************************************************************************)
(* Model of internal/btf/format.go: GoFormatter, which renders a BTF type  *)
(* graph as Go type declarations.                                          *)
(*                                                                         *)
(* A type is a pointer in the source; here it is a node identifier, a      *)
(* tuple <<tag, a, b, c>>, and Node(id) is the object it points to.  The    *)
(* name table gf.names is keyed on the identifier, as the Go map is keyed  *)
(* on the pointer.                                                         *)
(*                                                                         *)
(* uint32 values are kept as their 32-bit two's-complement reading: a value *)
(* v < 2^31 is the integer v, a value v >= 2^31 is the integer v - 2^32.   *)
(* Subtraction and addition modulo 2^32 are then plain subtraction and     *)
(* addition as long as no intermediate leaves (-2^31, 2^31), which the     *)
(* layouts below guarantee, and U32String prints the unsigned decimal.     *)
(***************************************************************************)
EXTENDS Integers, Sequences, FiniteSets, TLC

VARIABLES
    names,       \* gf.names: the name table given to NewGoFormatter
    Identifier,  \* gf.Identifier: the identifier policy
    w,           \* gf.w: the output buffer
    outcome,     \* "new" | "returned" | "panic": how the last call ended
    ret,         \* the string the last call returned
    err,         \* the error the last call returned
    callName,    \* the name argument of the last call
    callTyp,     \* the typ argument of the last call
    callIdentifier, \* gf.Identifier during the last call
    steps,       \* number of entries into writeTypeLit during the last call
    visited,     \* the <<typ, depth>> pairs writeTypeLit was entered with
    hist         \* what the buffer held when the last call began

vars == <<names, Identifier, w, outcome, ret, err, callName, callTyp,
          callIdentifier, steps, visited, hist>>

-----------------------------------------------------------------------------
(* Bounds of the enumerated inputs. *)

\* largest byte offset of the second member of a generated structure
MaxOffB == 4
\* largest declared size of a generated structure or data section
MaxSize == 5
\* how many levels beyond maxTypeDepth the generated chains go
ChainExtra == 1

-----------------------------------------------------------------------------
(* Program constants. *)

\* the nesting bound of the package; the file that declares it is not part
\* of the sources at hand, so it is kept small here, as a bound of the model
maxTypeDepth == 5

GlobalVar == "Global"
StaticVar == "Static"
ExternVar == "Extern"

NoErr == [kind |-> "nil", ctx |-> <<>>]
NewErr(kind) == [kind |-> kind, ctx |-> <<>>]
errNestedTooDeep == NewErr("nested too deep")
ErrNotSupported == NewErr("not supported")

\* fmt.Errorf("<label>: %w", e): the wrapped error keeps its identity
Wrapf(label, e) == [kind |-> e.kind, ctx |-> <<label>> \o e.ctx]

-----------------------------------------------------------------------------
(* The type graph. *)

Id(tag) == <<tag, 0, 0, 0>>

IntNode(size, signed, bool) ==
    [kind |-> "Int", Size |-> size, Signed |-> signed, Bool |-> bool]
EnumNode(values) == [kind |-> "Enum", Values |-> values]
TypedefNode(t) == [kind |-> "Typedef", Type |-> t]
ArrayNode(t, n) == [kind |-> "Array", Type |-> t, Nelems |-> n]
StructNode(size, members) == [kind |-> "Struct", Size |-> size, Members |-> members]
UnionNode(size, members) == [kind |-> "Union", Size |-> size, Members |-> members]
DatasecNode(size, vs) == [kind |-> "Datasec", Size |-> size, Vars |-> vs]
VarNode(name, t, linkage) ==
    [kind |-> "Var", Name |-> name, Type |-> t, Linkage |-> linkage]
QualifierNode(kind, t) == [kind |-> kind, Type |-> t]
PointerNode(t) == [kind |-> "Pointer", Target |-> t]
FuncNode == [kind |-> "Func"]

Member(name, t, offsetBits, bitfieldSize) ==
    [Name |-> name, Type |-> t, OffsetBits |-> offsetBits,
     BitfieldSize |-> bitfieldSize]
VarSecinfo(t, offset, size) == [Type |-> t, Offset |-> offset, Size |-> size]

IsQualifier(n) == n.kind \in {"Const", "Volatile", "Restrict"}

LinkageOf(k) == IF k = 0 THEN StaticVar ELSE IF k = 1 THEN ExternVar ELSE GlobalVar

\* the nodes that are not generated from parameters, by tag
FixedNodes ==
    [
      int32 |-> IntNode(4, TRUE, FALSE),
      uint8 |-> IntNode(1, FALSE, FALSE),
      uint16 |-> IntNode(2, FALSE, FALSE),
      bool |-> IntNode(1, FALSE, TRUE),
      bool4 |-> IntNode(4, FALSE, TRUE),
      enum0 |-> EnumNode(<<>>),
      color |->
          EnumNode(<<[Name |-> "Red", Value |-> 0], [Name |-> "Blue", Value |-> 1],
              [Name |-> "Neg", Value |-> -1]>>),
      ptr |-> PointerNode(Id("int32")),
      func |-> FuncNode,
      const_int32 |-> QualifierNode("Const", Id("int32")),
      volatile_color |-> QualifierNode("Volatile", Id("color")),
      const_foo |-> QualifierNode("Const", Id("foo")),
      qcycle |-> QualifierNode("Restrict", Id("qcycle")),
      td_int32 |-> TypedefNode(Id("int32")),
      td_foo |-> TypedefNode(Id("const_foo")),
      td_ptr |-> TypedefNode(Id("ptr")),
      td_color |-> TypedefNode(Id("color")),
      arr_foo |-> ArrayNode(Id("const_foo"), 3),
      arr_ptr |-> ArrayNode(Id("ptr"), 2),
      tdcycle |-> TypedefNode(Id("tdcycle")),
      arrcycle |-> ArrayNode(Id("arrcycle"), 1),
      foo |-> StructNode(4, <<Member("x", Id("int32"), 0, 0)>>),
      list |-> StructNode(0, <<Member("next", Id("list"), 0, 0)>>),
      s_spec |->
          StructNode(12, <<Member("a", Id("int32"), 0, 0),
              Member("b", Id("int32"), 64, 0)>>),
      s_empty |-> StructNode(0, <<>>),
      s_anon |->
          StructNode(8, <<Member("a", Id("int32"), 0, 0),
              Member("", Id("int32"), 32, 0)>>),
      s_bitfield |-> StructNode(4, <<Member("a", Id("int32"), 0, 3)>>),
      s_misaligned |->
          StructNode(8, <<Member("a", Id("uint8"), 0, 0),
              Member("b", Id("uint8"), 12, 0)>>),
      s_ptr |->
          StructNode(16, <<Member("a", Id("int32"), 0, 0),
              Member("p", Id("ptr"), 64, 0)>>),
      s_func |-> StructNode(8, <<Member("f", Id("func"), 0, 0)>>),
      s_refs |->
          StructNode(24, <<Member("f", Id("const_foo"), 0, 0),
              Member("p", Id("ptr"), 64, 0),
              Member("l", Id("list"), 128, 0),
              Member("n", Id("uint16"), 128, 0)>>),
      s_nested |->
          StructNode(16, <<Member("in", Id("s_spec"), 0, 0),
              Member("c", Id("td_color"), 96, 0)>>),
      s_deep |->
          StructNode(4, <<Member("a", <<"T", maxTypeDepth - 2, 0, 0>>, 0, 0)>>),
      s_deeper |->
          StructNode(4, <<Member("a", <<"T", maxTypeDepth - 1, 0, 0>>, 0, 0)>>),
      s_cycle |->
          StructNode(4, <<Member("self", Id("s_cycle"), 0, 0)>>),
      u_empty |-> UnionNode(4, <<>>),
      u_one |-> UnionNode(4, <<Member("a", Id("int32"), 0, 0)>>),
      u_two |->
          UnionNode(4, <<Member("a", Id("int32"), 0, 0),
              Member("b", Id("uint16"), 0, 0)>>),
      u_anon |->
          UnionNode(4, <<Member("a", Id("int32"), 0, 0),
              Member("", Id("uint16"), 0, 0)>>),
      u_bitfield |->
          UnionNode(4, <<Member("a", Id("int32"), 0, 0),
              Member("b", Id("uint16"), 0, 5)>>),
      u_misaligned |->
          UnionNode(4, <<Member("a", Id("int32"), 0, 0),
              Member("b", Id("uint8"), 4, 0)>>),
      u_func |->
          UnionNode(4, <<Member("a", Id("int32"), 0, 0),
              Member("b", Id("func"), 0, 0)>>),
      u_cycle2 |->
          UnionNode(4, <<Member("a", Id("int32"), 0, 0),
              Member("b", Id("u_cycle2"), 0, 0)>>),
      u_big |->
          UnionNode(8, <<Member("a", Id("int32"), 0, 0),
              Member("b", Id("uint16"), 0, 0)>>),
      u_bad1 |->
          UnionNode(4, <<Member("", Id("int32"), 0, 0),
              Member("b", Id("uint16"), 0, 0)>>),
      u_bad2 |-> UnionNode(4, <<Member("", Id("int32"), 0, 0)>>),
      u_cycle1 |->
          UnionNode(4, <<Member("self", Id("u_cycle1"), 0, 0)>>),
      v_x |-> VarNode("x", Id("uint16"), GlobalVar),
      v_z |-> VarNode("z", Id("uint8"), GlobalVar),
      v_anon |-> VarNode("", Id("uint8"), GlobalVar),
      v_loop |-> VarNode("loop", Id("tdcycle"), StaticVar),
      ds_anon |->
          DatasecNode(4, <<VarSecinfo(Id("v_x"), 0, 2), VarSecinfo(Id("v_anon"), 2, 1)>>),
      ds_loop |->
          DatasecNode(4, <<VarSecinfo(Id("v_loop"), 0, 1), VarSecinfo(Id("v_x"), 2, 2)>>),
      ds_ptr |->
          DatasecNode(16, <<VarSecinfo(Id("v_x"), 0, 2), VarSecinfo(Id("v_p"), 8, 8)>>),
      v_p |-> VarNode("p", Id("ptr"), GlobalVar)
    ]

FixedNode(tag) == FixedNodes[tag]

\* Node(id): the object the type pointer id refers to.
\*   <<"A", k>>   k nested arrays [2]...[2] over int32      (<<"A", 0>> is int32)
\*   <<"T", k>>   k nested typedefs over int32
\*   <<"Q", k>>   k nested qualifiers over int32
\*   <<"S", oa, ob, size>>   struct { a uint16 @ oa; b uint8 @ ob } of that size
\*   <<"VY", l>>, <<"VYE", l>>   the variable y of linkage l, VYE without a name
\*   <<"DS", l, oz, size>>   data section { x @ 0; y @ 2; z @ oz } of that size
\*   <<"DSE", l, oz, size>>  the same with the unnamed y
Node(id) ==
    CASE id[1] = "A" ->
            IF id[2] = 0 THEN IntNode(4, TRUE, FALSE)
            ELSE ArrayNode(<<"A", id[2] - 1, 0, 0>>, 2)
      [] id[1] = "T" ->
            IF id[2] = 0 THEN IntNode(4, TRUE, FALSE)
            ELSE TypedefNode(<<"T", id[2] - 1, 0, 0>>)
      [] id[1] = "Q" ->
            IF id[2] = 0 THEN IntNode(4, TRUE, FALSE)
            ELSE QualifierNode(IF id[2] % 2 = 0 THEN "Const" ELSE "Volatile",
                               <<"Q", id[2] - 1, 0, 0>>)
      [] id[1] = "S" ->
            StructNode(id[4], <<Member("a", Id("uint16"), id[2] * 8, 0),
                                Member("b", Id("uint8"), id[3] * 8, 0)>>)
      [] id[1] = "VY" -> VarNode("y", Id("uint16"), LinkageOf(id[2]))
      [] id[1] = "VYE" -> VarNode("", Id("uint16"), LinkageOf(id[2]))
      [] id[1] \in {"DS", "DSE"} ->
            DatasecNode(id[4],
                        <<VarSecinfo(Id("v_x"), 0, 2),
                          VarSecinfo(<<IF id[1] = "DS" THEN "VY" ELSE "VYE", id[2], 0, 0>>,
                                     2, 2),
                          VarSecinfo(Id("v_z"), id[3], 1)>>)
      [] OTHER -> FixedNode(id[1])

-----------------------------------------------------------------------------
(* uint32 arithmetic and formatting. *)

\* a - b in uint32, as the two's-complement reading of the result
U32Sub(a, b) == a - b
\* a + b in uint32
U32Add(a, b) == a + b

Digit(d) == ToString(d)
Pad6(n) ==
    Digit((n \div 100000) % 10) \o Digit((n \div 10000) % 10) \o
    Digit((n \div 1000) % 10) \o Digit((n \div 100) % 10) \o
    Digit((n \div 10) % 10) \o Digit(n % 10)

\* %d of a uint32: for a reading v < 0 the value is 2^32 + v, and
\* 2^32 = 4294 * 10^6 + 967296
U32String(v) ==
    IF v >= 0 THEN ToString(v)
    ELSE LET t == 967296 + v
         IN ToString(4294 + (t \div 1000000)) \o Pad6(t % 1000000)

-----------------------------------------------------------------------------
(* The writer: gf.w and the error being returned, threaded through the     *)
(* calls.  panicked is a Go run-time panic unwinding the stack; steps and   *)
(* visited record the entries into writeTypeLit.                           *)

Writer(buf) ==
    [w |-> buf, err |-> NoErr, panicked |-> FALSE, steps |-> 0, visited |-> {}]

\* gf.w.WriteString(s), fmt.Fprintf(&gf.w, ...)
WriteString(g, s) == [g EXCEPT !.w = @ \o s]

\* return e
Return(g, e) == [g EXCEPT !.err = e]

Panic(g) == [g EXCEPT !.panicked = TRUE]

\* gf.Identifier(s), for the two policies the model offers
ApplyIdentifier(s) == IF Identifier = "identity" THEN s ELSE "F_" \o s

-----------------------------------------------------------------------------
(* Code of the package that format.go calls. *)

RECURSIVE skipQualifiersFrom(_, _)
skipQualifiersFrom(typ, depth) ==
    IF depth > maxTypeDepth
    THEN [typ |-> typ, err |-> NewErr("exceeded type depth")]
    ELSE IF IsQualifier(Node(typ))
         THEN skipQualifiersFrom(Node(typ).Type, depth + 1)
         ELSE [typ |-> typ, err |-> NoErr]

\* skipQualifiers(typ): strips const, volatile and restrict, at most
\* maxTypeDepth of them
skipQualifiers(typ) == skipQualifiersFrom(typ, 0)

RECURSIVE SizeofFrom(_, _, _)
SizeofFrom(typ, n, i) ==
    IF i >= maxTypeDepth
    THEN [size |-> 0, err |-> NewErr("exceeded type depth")]
    ELSE LET v == Node(typ)
         IN CASE v.kind = "Array" -> SizeofFrom(v.Type, n * v.Nelems, i + 1)
              [] v.kind = "Typedef" \/ IsQualifier(v) -> SizeofFrom(v.Type, n, i + 1)
              [] v.kind \in {"Int", "Struct", "Union", "Datasec"} ->
                    [size |-> n * v.Size, err |-> NoErr]
              [] v.kind = "Enum" -> [size |-> n * 4, err |-> NoErr]
              [] v.kind = "Pointer" -> [size |-> n * 8, err |-> NoErr]
              [] OTHER -> [size |-> 0, err |-> NewErr("unsized type")]

\* Sizeof(typ): the size of a type in bytes
Sizeof(typ) == SizeofFrom(typ, 1, 0)

-----------------------------------------------------------------------------
(* format.go *)

\* a Reset that leaves the buffer as it was
Reset_kept(buf) == buf

\* gf.w.Reset()
Reset(buf) == ""

\* a lookup that never finds a name
lookupName_missed(typ) == ""

\* name := gf.names[typ]: the empty string for a type the table lacks
lookupName(typ) == IF typ \in DOMAIN names THEN names[typ] ELSE ""

\* the off-by-one comparison depth >= maxTypeDepth
depthExceeded_early(depth) == depth >= maxTypeDepth

\* depth > maxTypeDepth
depthExceeded(depth) == depth > maxTypeDepth

\* the union's whole member list, v.Members
firstMember_all(members) == members

\* v.Members[:1] of a union with at least one member
firstMember(members) == SubSeq(members, 1, 1)

\* a test that skips only static variables
skipVar_static(v) == v.Linkage = StaticVar

\* v.Linkage != GlobalVar
skipVar(v) == v.Linkage # GlobalVar

\* a padding that is written for a gap of zero bytes too
writePadding_always(g, bytes) ==
    WriteString(g, "_ [" \o U32String(bytes) \o "]byte; ")

writePadding(g, bytes) ==
    IF bytes # 0   \* bytes > 0, unsigned
    THEN WriteString(g, "_ [" \o U32String(bytes) \o "]byte; ")
    ELSE g

writeIntLit(g, i) ==
    IF i.Bool /\ i.Size = 1
    THEN WriteString(g, "bool")
    ELSE LET bits == i.Size * 8
         IN IF i.Signed
            THEN WriteString(g, "int" \o ToString(bits))
            ELSE WriteString(g, "uint" \o ToString(bits))

RECURSIVE writeType(_, _, _), writeTypeLit(_, _, _),
          writeStructLoop(_, _, _, _, _, _), writeDatasecLoop(_, _, _, _, _)

writeType(g, typ0, depth) ==
    LET q == skipQualifiers(typ0)
    IN IF q.err # NoErr THEN Return(g, q.err)
       ELSE LET name == lookupName(q.typ)
            IN IF name # ""
               THEN WriteString(g, name)
               ELSE writeTypeLit(g, q.typ, depth)

\* the body of the loop over members, from member i (1-based; the source's
\* index is i - 1), followed by the trailing padding and the closing brace
writeStructLoop(g, size, members, i, prevOffset, depth) ==
    IF i > Len(members)
    THEN WriteString(writePadding(g, U32Sub(size, prevOffset)), "}")
    ELSE LET m == members[i]
             field == "field " \o ToString(i - 1)
         IN IF m.Name = ""
            THEN Return(g, Wrapf(field, NewErr("anonymous fields are not supported")))
            ELSE IF m.BitfieldSize > 0
            THEN Return(g, Wrapf(field, NewErr("bitfields are not supported")))
            ELSE IF m.OffsetBits % 8 # 0
            THEN Return(g, Wrapf(field, NewErr("unsupported offset")))
            ELSE LET sz == Sizeof(m.Type)
                 IN IF sz.err # NoErr
                    THEN Return(g, Wrapf(field, sz.err))
                    ELSE LET offset == m.OffsetBits \div 8
                             g1 == writePadding(g, U32Sub(offset, prevOffset))
                             g2 == WriteString(g1, ApplyIdentifier(m.Name) \o " ")
                             g3 == writeType(g2, m.Type, depth)
                         IN IF g3.panicked THEN g3
                            ELSE IF g3.err # NoErr
                            THEN Return(g3, Wrapf(field, g3.err))
                            ELSE writeStructLoop(WriteString(g3, "; "), size, members,
                                                 i + 1, U32Add(offset, sz.size), depth)

writeStructLit(g, size, members, depth) ==
    writeStructLoop(WriteString(g, "struct { "), size, members, 1, 0, depth)

writeDatasecLoop(g, ds, i, prevOffset, depth) ==
    IF i > Len(ds.Vars)
    THEN WriteString(writePadding(g, U32Sub(ds.Size, prevOffset)), "}")
    ELSE LET vsi == ds.Vars[i]
             v == Node(vsi.Type)
             variable == "variable " \o ToString(i - 1)
         IN IF v.kind # "Var" THEN Panic(g)   \* vsi.Type.(*Var)
            ELSE IF skipVar(v)
            THEN writeDatasecLoop(g, ds, i + 1, prevOffset, depth)
            ELSE IF v.Name = ""
            THEN Return(g, Wrapf(variable, NewErr("empty name")))
            ELSE LET g1 == writePadding(g, U32Sub(vsi.Offset, prevOffset))
                     g2 == WriteString(g1, ApplyIdentifier(v.Name) \o " ")
                     g3 == writeType(g2, v.Type, depth)
                 IN IF g3.panicked THEN g3
                    ELSE IF g3.err # NoErr
                    THEN Return(g3, Wrapf(variable, g3.err))
                    ELSE writeDatasecLoop(WriteString(g3, "; "), ds, i + 1,
                                          U32Add(vsi.Offset, vsi.Size), depth)

writeDatasecLit(g, ds, depth) ==
    writeDatasecLoop(WriteString(g, "struct { "), ds, 1, 0, depth)

writeTypeLit(g0, typ0, depth0) ==
    LET depth == depth0 + 1
        g == [g0 EXCEPT !.steps = @ + 1, !.visited = @ \cup {<<typ0, depth>>}]
    IN IF depthExceeded(depth) THEN Return(g, errNestedTooDeep)
       ELSE LET q == skipQualifiers(typ0)
            IN IF q.err # NoErr THEN Return(g, q.err)
               ELSE LET v == Node(q.typ)
                    IN IF v.kind \notin {"Int", "Enum", "Typedef", "Array", "Struct",
                                         "Union", "Datasec"}
                       THEN Return(g, Wrapf("type", ErrNotSupported))
                       ELSE LET r == CASE v.kind = "Int" -> writeIntLit(g, v)
                                       [] v.kind = "Enum" -> WriteString(g, "int32")
                                       [] v.kind = "Typedef" -> writeType(g, v.Type, depth)
                                       [] v.kind = "Array" ->
                                             writeType(
                                                 WriteString(g, "[" \o U32String(v.Nelems) \o "]"),
                                                 v.Type, depth)
                                       [] v.kind = "Struct" ->
                                             writeStructLit(g, v.Size, v.Members, depth)
                                       [] v.kind = "Union" ->
                                             IF Len(v.Members) < 1
                                             THEN Panic(g)   \* slice bounds out of range
                                             ELSE writeStructLit(g, v.Size,
                                                                 firstMember(v.Members), depth)
                                       [] v.kind = "Datasec" -> writeDatasecLit(g, v, depth)
                            IN IF r.panicked \/ r.err = NoErr
                               THEN r
                               ELSE Return(r, Wrapf("type", r.err))

\* value of the %d verb for an int32
Int32String(v) == ToString(v)

RECURSIVE writeEnumValues(_, _, _, _)
writeEnumValues(g, name, values, i) ==
    IF i > Len(values) THEN g
    ELSE LET ev == values[i]
             id == ApplyIdentifier(ev.Name)
         IN writeEnumValues(
                WriteString(g, name \o id \o " " \o name \o " = "
                               \o Int32String(ev.Value) \o "; "),
                name, values, i + 1)

writeTypeDecl(g, name, typ0) ==
    IF name = "" THEN Return(g, NewErr("need a name"))
    ELSE LET q == skipQualifiers(typ0)
         IN IF q.err # NoErr THEN Return(g, q.err)
            ELSE LET v == Node(q.typ)
                 IN IF v.kind = "Enum"
                    THEN LET g1 == WriteString(g, "type " \o name \o " int32")
                         IN IF Len(v.Values) = 0 THEN g1
                            ELSE WriteString(
                                     writeEnumValues(WriteString(g1, "; const ( "),
                                                     name, v.Values, 1),
                                     ")")
                    ELSE writeTypeLit(WriteString(g, "type " \o name \o " "), q.typ, 0)

\* a return that hands back the buffer whatever the error
returned_buffer(g) == [ret |-> g.w, err |-> g.err]

\* what TypeDeclaration hands back once writeTypeDecl has returned g
returned(g) ==
    IF g.err # NoErr
    THEN [ret |-> "", err |-> g.err]
    ELSE [ret |-> g.w, err |-> NoErr]

\* the whole of TypeDeclaration on a formatter whose buffer holds buf
Run(buf, name, typ) == writeTypeDecl(Writer(Reset(buf)), name, typ)

-----------------------------------------------------------------------------
(* The inputs. *)

SomeNames ==
    (Id("foo") :> "Foo") @@ (Id("list") :> "List") @@ (Id("ptr") :> "Ptr")
      @@ (Id("color") :> "Color") @@ (Id("func") :> "Fn")
NameTables == {<<>>, SomeNames}

Policies == {"identity", "prefix"}

ChainLengths ==
    {0, 1, 2} \cup ((maxTypeDepth - 2) .. (maxTypeDepth - 1 + ChainExtra))

\* the fixed nodes a declaration is asked for; the others are reached as
\* members, elements or underlying types
FixedTypes ==
    { Id(t) : t \in
        {"int32", "bool", "bool4", "enum0", "color", "ptr", "const_foo", "qcycle",
         "td_int32", "td_foo", "td_ptr", "td_color", "arr_foo", "arr_ptr", "tdcycle",
         "arrcycle", "foo", "list", "s_spec", "s_empty", "s_anon", "s_bitfield",
         "s_misaligned", "s_ptr", "s_func", "s_refs", "s_nested", "s_deep", "s_deeper",
         "s_cycle", "u_empty", "u_one", "u_two", "u_anon", "u_bitfield", "u_misaligned",
         "u_func", "u_cycle2", "u_big", "u_bad1", "u_bad2", "u_cycle1", "ds_anon",
         "ds_loop", "ds_ptr", "const_int32", "volatile_color", "func"} }

ChainTypes ==
    { <<t, k, 0, 0>> : t \in {"A", "T"}, k \in ChainLengths }
      \cup { <<"Q", k, 0, 0>> : k \in {1, maxTypeDepth, maxTypeDepth + 1} }

StructTypes ==
    { <<"S", oa, ob, size>> : oa \in 0 .. 1, ob \in 0 .. MaxOffB,
                              size \in (MaxSize - 1) .. MaxSize }

DatasecTypes ==
    { <<"DS", l, oz, size>> : l \in 0 .. 2, oz \in 3 .. MaxOffB,
                              size \in (MaxSize - 1) .. MaxSize }
      \cup { <<"DSE", l, MaxOffB, size>> : l \in 0 .. 2, size \in (MaxSize - 1) .. MaxSize }

Types == FixedTypes \cup ChainTypes \cup StructTypes \cup DatasecTypes

\* the calls the model makes: every type under the name T, and a few without a name
Calls ==
    { <<"T", t>> : t \in Types } \cup { <<"", t>> : t \in {Id("int32"), Id("s_anon")} }

-----------------------------------------------------------------------------
(* The state machine. *)

\* NewGoFormatter(names)
Init ==
    /\ names \in NameTables
    /\ Identifier = "identity"
    /\ w = ""
    /\ outcome = "new"
    /\ ret = ""
    /\ err = NoErr
    /\ callName = ""
    /\ callTyp = Id("int32")
    /\ callIdentifier = "identity"
    /\ steps = 0
    /\ visited = {}
    /\ hist = "clean"

\* gf.Identifier = p
SetIdentifier(p) ==
    /\ outcome # "panic"
    /\ Identifier # p
    /\ Identifier' = p
    /\ UNCHANGED <<names, w, outcome, ret, err, callName, callTyp, callIdentifier,
                   steps, visited, hist>>

\* gf.TypeDeclaration(name, typ)
TypeDeclaration(name, typ) ==
    /\ outcome # "panic"
    /\ \E g \in {Run(w, name, typ)} :
          /\ w' = g.w
          /\ outcome' = IF g.panicked THEN "panic" ELSE "returned"
          /\ ret' = IF g.panicked THEN "" ELSE returned(g).ret
          /\ err' = IF g.panicked THEN NoErr ELSE returned(g).err
          /\ steps' = g.steps
          /\ visited' = g.visited
    /\ callName' = name
    /\ callTyp' = typ
    /\ callIdentifier' = Identifier
    /\ hist' = IF w # "" /\ err # NoErr THEN "partial" ELSE "clean"
    /\ UNCHANGED <<names, Identifier>>

Next ==
    \/ \E p \in Policies : SetIdentifier(p)
    \/ \E c \in Calls : TypeDeclaration(c[1], c[2])

Spec == Init /\ [][Next]_vars

TypeOK ==
    /\ outcome \in {"new", "returned", "panic"}
    /\ Identifier \in Policies
    /\ names \in NameTables

-----------------------------------------------------------------------------
(* Properties. *)

Returned == outcome = "returned"
Succeeded == Returned /\ err = NoErr
Failed == Returned /\ err # NoErr
\* the policy has not been changed since the last call
SamePolicy == Identifier = callIdentifier
InTable(t) == t \in DOMAIN names
Stripped(t) == skipQualifiers(t).typ
Decl == "type " \o callName \o " "

\* C1: a call that fails returns the empty string together with the error,
\* whatever the buffer holds by then; a call that succeeds returns the buffer.
C1_NoPartialText ==
    /\ Failed => ret = ""
    /\ Succeeded => ret = w /\ ret # ""
    /\ (Returned /\ callName = "") => err.kind = "need a name"

C1_Witness ==
    /\ Failed /\ ret = "" /\ w # ""
    /\ err.kind = "anonymous fields are not supported"

\* C2: the outcome of a call is the outcome of the same call on a formatter
\* whose buffer has never been written, whatever the buffer held before.
C2_HistoryIndependent ==
    (outcome # "new" /\ SamePolicy) =>
        LET f == writeTypeDecl(Writer(""), callName, callTyp)
        IN /\ f.panicked <=> outcome = "panic"
           /\ Returned => /\ err = f.err
                          /\ ret = IF f.err = NoErr THEN f.w ELSE ""

C2_Witness == hist = "partial" /\ Succeeded /\ SamePolicy /\ ret # ""

\* the end offset of member i - 1, zero before the first member
PrevEnd(members, i) ==
    IF i = 1 THEN 0
    ELSE members[i - 1].OffsetBits \div 8 + Sizeof(members[i - 1].Type).size

Gap(size, members, i) ==
    IF i <= Len(members)
    THEN members[i].OffsetBits \div 8 - PrevEnd(members, i)
    ELSE size - PrevEnd(members, i)

Layoutable(members) ==
    \A i \in 1 .. Len(members) :
        /\ members[i].Name # ""
        /\ members[i].BitfieldSize = 0
        /\ members[i].OffsetBits % 8 = 0
        /\ Sizeof(members[i].Type).err = NoErr

HasNegativeGap(size, members) ==
    \E i \in 1 .. Len(members) + 1 : Gap(size, members, i) < 0

\* the variables of a section that are Global
IsGlobal(vsi) == Node(vsi.Type).Linkage = GlobalVar
GlobalVars(ds) == SelectSeq(ds.Vars, IsGlobal)
DatasecPrevEnd(vs, i) == IF i = 1 THEN 0 ELSE vs[i - 1].Offset + vs[i - 1].Size
DatasecGap(size, vs, i) ==
    IF i <= Len(vs) THEN vs[i].Offset - DatasecPrevEnd(vs, i)
    ELSE size - DatasecPrevEnd(vs, i)
DatasecNegativeGap(ds) ==
    \E i \in 1 .. Len(GlobalVars(ds)) + 1 : DatasecGap(ds.Size, GlobalVars(ds), i) < 0

\* C3: a structure or data section with a negative gap (an overlap, or a
\* declared size short of the last entry's end) makes the call fail.
C3_NegativeGapFails ==
    Returned =>
        LET v == Node(Stripped(callTyp))
        IN /\ (v.kind = "Struct" /\ Layoutable(v.Members)
                 /\ HasNegativeGap(v.Size, v.Members)) => err # NoErr
           /\ (v.kind = "Datasec" /\ DatasecNegativeGap(v)) => err # NoErr

\* the text of a padding field of gap bytes, as the claim states it
PadText(gap) == IF gap > 0 THEN "_ [" \o ToString(gap) \o "]byte; " ELSE ""

\* the text a member's type is rendered as inside a literal of depth 1
TypeText(t) == writeType(Writer(""), t, 1).w

RECURSIVE ExpectedFields(_, _, _)
ExpectedFields(size, members, i) ==
    IF i > Len(members) THEN PadText(Gap(size, members, i))
    ELSE PadText(Gap(size, members, i))
           \o ApplyIdentifier(members[i].Name) \o " " \o TypeText(members[i].Type) \o "; "
           \o ExpectedFields(size, members, i + 1)

RECURSIVE SumBefore(_, _, _)
\* the sizes of the fields and paddings emitted before member i
SumBefore(size, members, i) ==
    IF i = 1 THEN Gap(size, members, 1)
    ELSE SumBefore(size, members, i - 1) + Sizeof(members[i - 1].Type).size
           + Gap(size, members, i)

WellFormed(v) ==
    /\ v.kind = "Struct"
    /\ Layoutable(v.Members)
    /\ ~HasNegativeGap(v.Size, v.Members)

\* C4: the literal of a well-formed structure holds its members in order, a
\* padding of exactly the gap before each member and after the last one where
\* the gap is positive and none where it is zero, so that the emitted sizes
\* add up to each member's offset and to the declared size.
C4_PaddingExact ==
    (Succeeded /\ SamePolicy /\ WellFormed(Node(Stripped(callTyp)))) =>
        LET v == Node(Stripped(callTyp))
        IN /\ ret = Decl \o "struct { " \o ExpectedFields(v.Size, v.Members, 1) \o "}"
           /\ \A i \in 1 .. Len(v.Members) :
                 SumBefore(v.Size, v.Members, i) = v.Members[i].OffsetBits \div 8
           /\ SumBefore(v.Size, v.Members, Len(v.Members) + 1) = v.Size

C4_Witness ==
    /\ Succeeded /\ callTyp = Id("s_spec") /\ callName = "T"
    /\ ret = "type T struct { a int32; _ [4]byte; b int32; }"

IsChain(t) == t[1] \in {"A", "T"}

\* C5: a chain of unnamed literals that enters the literal emitter exactly
\* maxTypeDepth times is rendered, and one that needs more entries fails with
\* the nested-too-deep error, still told apart from the unsupported-kind
\* error under its wrapping.
C5_DepthBoundExact ==
    (Returned /\ callName # "" /\ IsChain(callTyp)) =>
        /\ callTyp[2] + 1 <= maxTypeDepth => err = NoErr /\ steps = callTyp[2] + 1
        /\ callTyp[2] + 1 > maxTypeDepth =>
              /\ err.kind = errNestedTooDeep.kind
              /\ err.kind # ErrNotSupported.kind
              /\ Len(err.ctx) = maxTypeDepth
              /\ steps = maxTypeDepth + 1

C5_Witness ==
    /\ Succeeded /\ callTyp = <<"A", maxTypeDepth - 1, 0, 0>>
    /\ steps = maxTypeDepth

IsUnion(t) == t \in FixedTypes /\ Node(t).kind = "Union" /\ Len(Node(t).Members) >= 1

\* C6: the result for a union is decided by its size and its first member:
\* every union of the same size and first member gives the same text or the
\* same failure, whatever its later members are.
C6_UnionFirstMemberOnly ==
    (Returned /\ SamePolicy /\ IsUnion(callTyp)) =>
        \A u \in FixedTypes :
            (/\ IsUnion(u)
             /\ Node(u).Size = Node(callTyp).Size
             /\ Node(u).Members[1] = Node(callTyp).Members[1]) =>
                LET f == writeTypeDecl(Writer(""), callName, u)
                IN ~f.panicked /\ f.err = err /\ (err = NoErr => f.w = ret)

C6_Witness ==
    /\ Succeeded /\ callTyp = Id("u_anon") /\ callName = "T"
    /\ ret = "type T struct { a int32; }"

RECURSIVE ExpectedVars(_, _, _)
ExpectedVars(size, vs, i) ==
    IF i > Len(vs) THEN PadText(DatasecGap(size, vs, i))
    ELSE PadText(DatasecGap(size, vs, i))
           \o ApplyIdentifier(Node(vs[i].Type).Name) \o " "
           \o TypeText(Node(vs[i].Type).Type) \o "; "
           \o ExpectedVars(size, vs, i + 1)

\* C7: the result for a data section is the result for the section with its
\* variables that are not Global removed; the paddings are the gaps between
\* the Global variables alone, and a skipped variable is not validated.
C7_NonGlobalSkipped ==
    (Returned /\ SamePolicy /\ callName # "" /\ Node(callTyp).kind = "Datasec") =>
        LET ds == Node(callTyp)
            f == writeDatasecLit(WriteString(Writer(""), Decl),
                                 [ds EXCEPT !.Vars = GlobalVars(ds)], 1)
        IN /\ f.err.kind = err.kind
           /\ err = NoErr => ret = f.w
           /\ (err = NoErr /\ ~DatasecNegativeGap(ds)) =>
                 ret = Decl \o "struct { " \o ExpectedVars(ds.Size, GlobalVars(ds), 1) \o "}"
           /\ (\A i \in 1 .. Len(GlobalVars(ds)) : Node(GlobalVars(ds)[i].Type).Name # "")
                 => err.kind # "empty name"

C7_Witness ==
    /\ Succeeded /\ callTyp = <<"DSE", 0, MaxOffB, MaxSize>> /\ callName = "T"
    /\ callIdentifier = "identity"
    /\ ret = "type T struct { x uint16; " \o PadText(MaxOffB - 2) \o "z uint8; "
                \o PadText(MaxSize - MaxOffB - 1) \o "}"

\* the type in the nested position of a typedef or an array
Nested(v) == Stripped(v.Type)

Followed(t) ==
    LET v == Node(t)
        to == CASE v.kind \in {"Typedef", "Array", "Const", "Volatile", "Restrict"} ->
                      {v.Type}
                [] v.kind = "Struct" ->
                      {v.Members[i].Type : i \in 1 .. Len(v.Members)}
                [] v.kind = "Union" ->
                      {v.Members[i].Type : i \in 1 .. (IF Len(v.Members) >= 1 THEN 1 ELSE 0)}
                [] v.kind = "Datasec" ->
                      {Node(v.Vars[i].Type).Type :
                          i \in {j \in 1 .. Len(v.Vars) : IsGlobal(v.Vars[j])}}
                [] OTHER -> {}
    IN {r \in to : ~InTable(r)}

RECURSIVE ReachFrom(_)
\* the nodes reached from the set S by following the emitter
ReachFrom(S) ==
    LET T == S \cup UNION {Followed(t) : t \in S}
    IN IF T = S THEN S ELSE ReachFrom(T)

\* the emitter, started at t, comes back to a node it has been at
ReachesCycle(t) == \E r \in ReachFrom({t}) : r \in ReachFrom(Followed(r))

\* C9: a call ends by returning text or a failure after a bounded number of
\* recursive steps, and a call that leads the emitter into a cycle of nodes
\* the name table lacks ends in a failure.
C9_Terminates ==
    outcome # "new" =>
        /\ outcome = "returned"
        /\ \A e \in visited : e[2] <= maxTypeDepth + 1
        /\ ReachesCycle(callTyp) => err # NoErr

\* the part of C9 that does not rest on how a call ends: the recursion is
\* bounded, and a cycle the emitter is led into ends in a failure
BoundedRecursion ==
    outcome # "new" =>
        /\ \A e \in visited : e[2] <= maxTypeDepth + 1
        /\ (Returned /\ ReachesCycle(callTyp)) => err # NoErr

\* C10: no call ends in a panic.
C10_NeverPanics == outcome # "panic"

====
